---- MODULE Spec2Model ----
(***************************************************************************)
(* Model of the crawl engine of src/app.py: scrape_website and the helpers *)
(* it calls (get_base_url, urljoin as used by extract_page_data, the       *)
(* substring test that tags a link internal).                              *)
(*                                                                         *)
(* A URL string is a sequence of tokens, e.g.                              *)
(*   "https://ex.com/a/b"  ==  <<"https:", "//ex.com", "/", "a", "/", "b">>*)
(* so that joining, origin extraction and substring containment are        *)
(* computed on the text of the URL, as the code computes them.             *)
(***************************************************************************)
EXTENDS Integers, Sequences, FiniteSets, TLC

\* ---------------------------------------------------------------- bounds
MaxDepthBound == 2      \* max_depth ranges over 0..MaxDepthBound
MaxPagesBound == 4      \* max_pages ranges over 1..MaxPagesBound
MaxLinks == 2           \* anchors per fetched page: 0..MaxLinks

\* ------------------------------------------------------- URL vocabulary
Schemes == {"https:"}
Netlocs == {"//ex.com", "//other.org"}
BadNetlocs == {"//[::1"}     \* urlparse raises ValueError("Invalid IPv6 URL")

SeedUrl == <<"https:", "//ex.com", "/", "a", "/", "b">>
BadSeed == <<"https:", "//[::1">>
Seeds == {SeedUrl, BadSeed}

\* what the user may have typed in the URL field of main: nothing,
\* "ex.com", "https:/a", "https://[::1", "https://ex.com/a/b"
Typed == {<<>>, <<"ex.com">>, <<"https:", "/", "a">>, BadSeed, SeedUrl}

\* hrefs the anchors of a fetched page may carry
HrefRel == <<"c">>                                   \* href="c"
HrefAbsPath == <<"/", "x">>                          \* href="/x"
HrefExternal == <<"https:", "//other.org", "/">>     \* href="https://other.org/"
\* href="https://other.org/r?u=https://ex.com": another site, but the text
\* of the URL contains the crawl's origin
HrefLoose == <<"https:", "//other.org", "/", "r?u=", "https:", "//ex.com">>
\* href="https://[::1": urljoin raises ValueError on it
HrefBad == <<"https:", "//[::1">>
Hrefs == {HrefRel, HrefAbsPath, HrefExternal, HrefLoose, HrefBad}

\* every anchor list a page may carry, in document order
RECURSIVE SeqsUpTo(_, _)
SeqsUpTo(S, n) ==
  IF n = 0 THEN {<<>>}
  ELSE LET shorter == SeqsUpTo(S, n - 1)
       IN  shorter \cup {Append(s, x) : s \in {t \in shorter : Len(t) = n - 1}, x \in S}

AnchorLists == SeqsUpTo(Hrefs, MaxLinks)

\* ------------------------------------------------------- URL utilities
\* urlparse(url): scheme, netloc and path of a URL string
urlparse(u) ==
  LET hasScheme == Len(u) >= 1 /\ u[1] \in Schemes
      afterScheme == IF hasScheme THEN Tail(u) ELSE u
      hasNetloc == Len(afterScheme) >= 1 /\ afterScheme[1] \in (Netlocs \cup BadNetlocs)
  IN  [scheme |-> IF hasScheme THEN <<u[1]>> ELSE <<>>,
       netloc |-> IF hasNetloc THEN <<afterScheme[1]>> ELSE <<>>,
       path   |-> IF hasNetloc THEN Tail(afterScheme) ELSE afterScheme]

\* urlparse raises ValueError on a malformed bracketed host
urlparseRaises(u) == \E i \in 1..Len(u) : u[i] \in BadNetlocs

\* variant: any([scheme, netloc])
is_valid_url_any(u) ==
  IF urlparseRaises(u) THEN FALSE
  ELSE urlparse(u).scheme # <<>> \/ urlparse(u).netloc # <<>>

\* is_valid_url(url): all([scheme, netloc]), False when urlparse raises
is_valid_url(u) ==
  IF urlparseRaises(u) THEN FALSE
  ELSE urlparse(u).scheme # <<>> /\ urlparse(u).netloc # <<>>

\* get_base_url(url): f"{scheme}://{netloc}"
get_base_url(u) == urlparse(u).scheme \o urlparse(u).netloc

\* the directory part of a path: everything up to and including the last "/"
RECURSIVE DirName(_)
DirName(p) ==
  IF p = <<>> THEN <<>>
  ELSE IF p[Len(p)] = "/" THEN p
  ELSE DirName(SubSeq(p, 1, Len(p) - 1))

\* urljoin(base, href): standard relative resolution
urljoin(base, href) ==
  LET b == urlparse(base)
      h == urlparse(href)
  IN  IF href = <<>> THEN base
      ELSE IF h.scheme # <<>> THEN href
      ELSE IF h.netloc # <<>> THEN b.scheme \o href
      ELSE IF href[1] = "/" THEN b.scheme \o b.netloc \o href
      ELSE b.scheme \o b.netloc \o
           (IF DirName(b.path) = <<>> THEN <<"/">> ELSE DirName(b.path)) \o href

\* urljoin parses both arguments and raises where urlparse raises
urljoinRaises(base, href) == urlparseRaises(base) \/ urlparseRaises(href)

\* Python's  needle in haystack  on strings: contiguous containment
Contains(needle, haystack) ==
  \E i \in 0..(Len(haystack) - Len(needle)) :
     SubSeq(haystack, i + 1, i + Len(needle)) = needle

\* the `links` list built by extract_page_data
ExtractLinks(hrefs, base) ==
  [i \in 1..Len(hrefs) |->
     [url |-> urljoin(base, hrefs[i]),
      is_internal |-> Contains(base, urljoin(base, hrefs[i]))]]

\* extract_page_data raises when urljoin raises on one of the hrefs
ExtractRaises(hrefs, base) == \E i \in 1..Len(hrefs) : urljoinRaises(base, hrefs[i])

\* extract_page_data(url, soup, base_url), restricted to the fields the
\* crawl engine reads or returns; soup is given by its anchors' hrefs
extract_page_data(u, hrefs, base) ==
  [url |-> u,
   links |-> ExtractLinks(hrefs, base),
   num_links |-> Len(hrefs)]

\* ------------------------------------------------------------- state
VARIABLES
  pc,          \* "setup", "loop", "done" (returned after the loop), "aborted" (outer except)
  url,         \* argument: the seed
  max_depth,   \* argument
  max_pages,   \* argument
  base_url,    \* get_base_url(url)
  visited,     \* set of URL strings
  to_visit,    \* deque of <<url, depth>>
  results,     \* list of page records
  result,      \* the returned dict
  fetched,     \* history: the URLs passed to requests.get, in call order
  depths,      \* history: the dequeue depth of each record of results
  warnings,    \* history: number of st.warning calls of the loop
  enqueued,    \* history: number of to_visit.append calls of the loop
  anchors,     \* history: the hrefs of the anchors of each record of results
  responses,   \* history: what each requests.get gave: "raised", "nonhtml", "html"
  parsed,      \* history: number of calls of extract_page_data
  slept,       \* history: time.sleep was called since the last requests.get
  order,       \* history: the URLs put in to_visit, in order of first appearance
  lastDepth    \* history: depth of the entry dequeued last, -1 before the first

vars == <<pc, url, max_depth, max_pages, base_url, visited, to_visit, results,
          result, fetched, depths, warnings, enqueued, anchors, responses, parsed,
          slept, order, lastDepth>>

Pending == [pending |-> TRUE]

Init ==
  /\ pc = "setup"
  /\ url \in Seeds
  /\ max_depth \in 0..MaxDepthBound
  /\ max_pages \in 1..MaxPagesBound
  /\ base_url = <<>>
  /\ visited = {}
  /\ to_visit = <<>>
  /\ results = <<>>
  /\ result = Pending
  /\ fetched = <<>>
  /\ depths = <<>>
  /\ warnings = 0
  /\ enqueued = 0
  /\ anchors = <<>>
  /\ responses = <<>>
  /\ parsed = 0
  /\ slept = FALSE
  /\ order = <<>>
  /\ lastDepth = -1

\* ------------------------------------------------------------ helpers
\* variant: `while to_visit:` -- the page cap left out of the loop condition
LoopCondNoCap == to_visit # <<>>

\* while to_visit and len(results) < max_pages
LoopCond == to_visit # <<>> /\ Len(results) < max_pages

\* variant: to_visit.pop() -- the newest entry is taken instead of the oldest
popright(q) == [entry |-> q[Len(q)], rest |-> SubSeq(q, 1, Len(q) - 1)]

\* current_url, depth = to_visit.popleft()
popleft(q) == [entry |-> Head(q), rest |-> Tail(q)]

\* variant: `if depth > max_depth: continue` -- the visited test left out
ShouldSkipDepthOnly(u, d) == d > max_depth

\* if current_url in visited or depth > max_depth: continue
ShouldSkip(u, d) == u \in visited \/ d > max_depth

\* variant: the depth test left out before the loop over the links
MayFollowAlways(d) == TRUE

\* variant: `if depth <= max_depth` -- off by one
MayFollowOffByOne(d) == d <= max_depth

\* if depth < max_depth
MayFollow(d) == d < max_depth

\* variant: `if link['url'] not in visited` -- the is_internal test left out
WantedAnyUnvisited(link) == link.url \notin visited

\* variant: `if link['is_internal']` -- the visited test left out
WantedAnyInternal(link) == link.is_internal

\* if link['is_internal'] and link['url'] not in visited
Wanted(link) == link.is_internal /\ link.url \notin visited

\* the entries appended by the loop over page_data['links']
NewEntries(links, d) ==
  LET keep == SelectSeq(links, Wanted)
  IN  [i \in 1..Len(keep) |-> <<keep[i].url, d + 1>>]

\* variant: the `if not results` return left out
EnvelopeAlwaysSuccess(res) == [success |-> TRUE, data |-> res, total_pages |-> Len(res)]

\* the two return statements after the loop
Envelope(res) ==
  IF res = <<>>
  THEN [success |-> FALSE, error |-> "No pages could be crawled", data |-> <<>>]
  ELSE [success |-> TRUE, data |-> res, total_pages |-> Len(res)]

\* the order of first appearance after the URLs us were appended
RECURSIVE FirstSeen(_, _)
FirstSeen(ord, us) ==
  IF us = <<>> THEN ord
  ELSE FirstSeen(IF \E i \in 1..Len(ord) : ord[i] = Head(us) THEN ord
                 ELSE Append(ord, Head(us)), Tail(us))

\* ------------------------------------------------------------ actions
\* base_url = get_base_url(url); visited = set(); to_visit = deque([(url, 0)]); results = []
Setup ==
  /\ pc = "setup"
  /\ ~urlparseRaises(url)
  /\ base_url' = get_base_url(url)
  /\ visited' = {}
  /\ to_visit' = <<<<url, 0>>>>
  /\ results' = <<>>
  /\ order' = <<url>>
  /\ pc' = "loop"
  /\ UNCHANGED <<url, max_depth, max_pages, result, fetched, depths, warnings, enqueued,
                 anchors, responses, parsed, slept, lastDepth>>

\* the outer except: an exception before the loop starts
SetupFailure ==
  /\ pc = "setup"
  /\ urlparseRaises(url)
  /\ result' = [success |-> FALSE, error |-> "Invalid IPv6 URL", data |-> <<>>]
  /\ pc' = "aborted"
  /\ UNCHANGED <<url, max_depth, max_pages, base_url, visited, to_visit, results,
                 fetched, depths, warnings, enqueued, anchors, responses, parsed,
                 slept, order, lastDepth>>

\* variant: the entry is read as to_visit[0] and a skipped entry is never
\* removed from the deque
SkipKeepsEntry ==
  /\ pc = "loop"
  /\ LoopCond
  /\ ShouldSkip(Head(to_visit)[1], Head(to_visit)[2])
  /\ UNCHANGED vars

\* an iteration that ends at the first `continue`
Skip ==
  /\ pc = "loop"
  /\ LoopCond
  /\ LET e == popleft(to_visit).entry
     IN  /\ ShouldSkip(e[1], e[2])
         /\ to_visit' = popleft(to_visit).rest
         /\ lastDepth' = e[2]
  /\ UNCHANGED <<pc, url, max_depth, max_pages, base_url, visited, results, result,
                 fetched, depths, warnings, enqueued, anchors, responses, parsed,
                 slept, order>>

\* variant: no per-page try/except -- the exception reaches the outer except
FetchErrorAborts ==
  /\ pc = "loop"
  /\ LoopCond
  /\ LET e == popleft(to_visit).entry
     IN  /\ ~ShouldSkip(e[1], e[2])
         /\ to_visit' = popleft(to_visit).rest
         /\ fetched' = Append(fetched, e[1])
         /\ lastDepth' = e[2]
  /\ responses' = Append(responses, "raised")
  /\ slept' = FALSE
  /\ result' = [success |-> FALSE, error |-> "fetch failed", data |-> <<>>]
  /\ pc' = "aborted"
  /\ UNCHANGED <<url, max_depth, max_pages, base_url, visited, results,
                 depths, warnings, enqueued, anchors, parsed, order>>

\* variant: the URL is marked visited as soon as its fetch is attempted
FetchErrorMarksVisited ==
  /\ pc = "loop"
  /\ LoopCond
  /\ LET e == popleft(to_visit).entry
     IN  /\ ~ShouldSkip(e[1], e[2])
         /\ to_visit' = popleft(to_visit).rest
         /\ fetched' = Append(fetched, e[1])
         /\ visited' = visited \cup {e[1]}
         /\ lastDepth' = e[2]
  /\ responses' = Append(responses, "raised")
  /\ slept' = FALSE
  /\ warnings' = warnings + 1
  /\ UNCHANGED <<pc, url, max_depth, max_pages, base_url, results, result,
                 depths, enqueued, anchors, parsed, order>>

\* an iteration whose requests.get or raise_for_status raises: st.warning,
\* continue
FetchError ==
  /\ pc = "loop"
  /\ LoopCond
  /\ LET e == popleft(to_visit).entry
     IN  /\ ~ShouldSkip(e[1], e[2])
         /\ to_visit' = popleft(to_visit).rest
         /\ fetched' = Append(fetched, e[1])
         /\ lastDepth' = e[2]
  /\ responses' = Append(responses, "raised")
  /\ slept' = FALSE
  /\ warnings' = warnings + 1
  /\ UNCHANGED <<pc, url, max_depth, max_pages, base_url, visited, results, result,
                 depths, enqueued, anchors, parsed, order>>

\* variant: the content-type test left out -- the response is extracted as
\* a page without anchors
FetchNonHtmlExtracts ==
  /\ pc = "loop"
  /\ LoopCond
  /\ LET e == popleft(to_visit).entry
     IN  /\ ~ShouldSkip(e[1], e[2])
         /\ to_visit' = popleft(to_visit).rest
         /\ fetched' = Append(fetched, e[1])
         /\ results' = Append(results, extract_page_data(e[1], <<>>, base_url))
         /\ depths' = Append(depths, e[2])
         /\ visited' = visited \cup {e[1]}
         /\ lastDepth' = e[2]
  /\ responses' = Append(responses, "nonhtml")
  /\ anchors' = Append(anchors, <<>>)
  /\ parsed' = parsed + 1
  /\ slept' = TRUE
  /\ UNCHANGED <<pc, url, max_depth, max_pages, base_url, result, warnings, enqueued,
                 order>>

\* an iteration whose response is not text/html: continue
FetchNonHtml ==
  /\ pc = "loop"
  /\ LoopCond
  /\ LET e == popleft(to_visit).entry
     IN  /\ ~ShouldSkip(e[1], e[2])
         /\ to_visit' = popleft(to_visit).rest
         /\ fetched' = Append(fetched, e[1])
         /\ lastDepth' = e[2]
  /\ responses' = Append(responses, "nonhtml")
  /\ slept' = FALSE
  /\ UNCHANGED <<pc, url, max_depth, max_pages, base_url, visited, results, result,
                 depths, warnings, enqueued, anchors, parsed, order>>

\* an iteration whose response is text/html and whose extraction raises
\* (urljoin on a malformed href): st.warning, continue
FetchExtractError ==
  /\ pc = "loop"
  /\ LoopCond
  /\ \E hrefs \in AnchorLists : ExtractRaises(hrefs, base_url)
  /\ LET e == popleft(to_visit).entry
     IN  /\ ~ShouldSkip(e[1], e[2])
         /\ to_visit' = popleft(to_visit).rest
         /\ fetched' = Append(fetched, e[1])
         /\ lastDepth' = e[2]
  /\ responses' = Append(responses, "html")
  /\ parsed' = parsed + 1
  /\ slept' = FALSE
  /\ warnings' = warnings + 1
  /\ UNCHANGED <<pc, url, max_depth, max_pages, base_url, visited, results, result,
                 depths, enqueued, anchors, order>>

\* an iteration that extracts a page: append the record, enqueue its
\* links, mark the URL visited, sleep
FetchOk ==
  /\ pc = "loop"
  /\ LoopCond
  /\ \E hrefs \in AnchorLists :
       LET e == popleft(to_visit).entry
           page_data == extract_page_data(e[1], hrefs, base_url)
           new == IF MayFollow(e[2]) THEN NewEntries(page_data.links, e[2]) ELSE <<>>
       IN  /\ ~ShouldSkip(e[1], e[2])
           /\ ~ExtractRaises(hrefs, base_url)
           /\ fetched' = Append(fetched, e[1])
           /\ results' = Append(results, page_data)
           /\ depths' = Append(depths, e[2])
           /\ anchors' = Append(anchors, hrefs)
           /\ to_visit' = popleft(to_visit).rest \o new
           /\ enqueued' = enqueued + Len(new)
           /\ order' = FirstSeen(order, [i \in 1..Len(new) |-> new[i][1]])
           /\ visited' = visited \cup {e[1]}
           /\ lastDepth' = e[2]
  /\ responses' = Append(responses, "html")
  /\ parsed' = parsed + 1
  /\ slept' = TRUE
  /\ UNCHANGED <<pc, url, max_depth, max_pages, base_url, result, warnings>>

\* the loop condition is false: build the returned dict
Return ==
  /\ pc = "loop"
  /\ ~LoopCond
  /\ result' = Envelope(results)
  /\ pc' = "done"
  /\ UNCHANGED <<url, max_depth, max_pages, base_url, visited, to_visit, results,
                 fetched, depths, warnings, enqueued, anchors, responses, parsed,
                 slept, order, lastDepth>>

Next ==
  \/ Setup
  \/ SetupFailure
  \/ Skip
  \/ FetchError
  \/ FetchNonHtml
  \/ FetchExtractError
  \/ FetchOk
  \/ Return

Spec == Init /\ [][Next]_vars

\* ------------------------------------------------------- main (the UI)
\* the page as main renders it: a typed URL, the two sliders, no crawl yet
UIInit ==
  /\ pc = "ui"
  /\ url \in Typed
  /\ max_depth \in 0..MaxDepthBound
  /\ max_pages \in 1..MaxPagesBound
  /\ base_url = <<>>
  /\ visited = {}
  /\ to_visit = <<>>
  /\ results = <<>>
  /\ result = Pending
  /\ fetched = <<>>
  /\ depths = <<>>
  /\ warnings = 0
  /\ enqueued = 0
  /\ anchors = <<>>
  /\ responses = <<>>
  /\ parsed = 0
  /\ slept = FALSE
  /\ order = <<>>
  /\ lastDepth = -1

\* `if not url` / `elif not is_valid_url(url)`: st.warning or st.error, no call
Refused(u) == u = <<>> \/ ~is_valid_url(u)

\* the button "Scrape Single Page": scrape_website(url, max_depth=0, max_pages=1)
ButtonSingle ==
  /\ pc = "ui"
  /\ IF Refused(url)
     THEN pc' = "rejected" /\ UNCHANGED <<max_depth, max_pages>>
     ELSE pc' = "setup" /\ max_depth' = 0 /\ max_pages' = 1
  /\ UNCHANGED <<url, base_url, visited, to_visit, results, result, fetched, depths,
                 warnings, enqueued, anchors, responses, parsed, slept, order, lastDepth>>

\* the button "Start Crawling": scrape_website(url, max_depth, max_pages) with the sliders' values
ButtonCrawl ==
  /\ pc = "ui"
  /\ IF Refused(url) THEN pc' = "rejected" ELSE pc' = "setup"
  /\ UNCHANGED <<url, max_depth, max_pages, base_url, visited, to_visit, results, result,
                 fetched, depths, warnings, enqueued, anchors, responses, parsed, slept,
                 order, lastDepth>>

\* main and the call it makes. SetupFailure is left out: its guard is
\* urlparseRaises(url) at pc = "setup", and the buttons hand over only URLs
\* on which is_valid_url, hence urlparse, did not raise
\* (C12_InvalidSeedRejected states it for every reachable state).
UINext ==
  \/ ButtonSingle
  \/ ButtonCrawl
  \/ Setup
  \/ Skip
  \/ FetchError
  \/ FetchNonHtml
  \/ FetchExtractError
  \/ FetchOk
  \/ Return

UISpec == UIInit /\ [][UINext]_vars

\* the loop is the only thread of control: it always takes its next step
FairSpec == Spec /\ WF_vars(Next)

\* ------------------------------------------------------------- claims
NoRepeat(s) == \A i, j \in 1..Len(s) : i # j => s[i] # s[j]

\* C1: within one scrape_website invocation no URL is passed to
\* requests.get twice, whatever the outcome of the first attempt.
C1_NoUrlFetchedTwice == NoRepeat(fetched)

\* C2: at every point of the loop, and in the returned dict, the number of
\* page records is at most max_pages.
C2_PageCap ==
  /\ Len(results) <= max_pages
  /\ pc = "done" => Len(result.data) <= max_pages

\* the cap ended the crawl while entries were still waiting
C2_Witness == pc = "done" /\ Len(result.data) = max_pages /\ to_visit # <<>>

\* C3: every record of results was dequeued at a depth <= max_depth and
\* every frontier entry has a depth <= max_depth.
C3_DepthBound ==
  /\ \A i \in 1..Len(depths) : depths[i] <= max_depth
  /\ \A i \in 1..Len(to_visit) : to_visit[i][2] <= max_depth

\* a page extracted at depth max_depth >= 1 carried a link the loop would
\* have wanted, and nothing was enqueued for it
C3_Witness ==
  /\ max_depth >= 1
  /\ Len(results) >= 1
  /\ depths[Len(depths)] = max_depth
  /\ \E k \in 1..Len(results[Len(results)].links) :
       LET l == results[Len(results)].links[k]
       IN  l.is_internal /\ l.url \notin visited
  /\ \A i \in 1..Len(to_visit) : to_visit[i][2] <= max_depth

\* C4: the dequeue depths of the records of results are non-decreasing
\* along the list (a shallower page is never behind a deeper one).
C4_BreadthFirst ==
  /\ Len(depths) = Len(results)
  /\ \A i, j \in 1..Len(depths) : i < j => depths[i] <= depths[j]

\* two pages of depth 1 both precede a page of depth 2
C4_Witness == depths = <<0, 1, 1, 2>>

\* C5: no two records of results carry the same URL.
C5_NoDuplicateRecords == NoRepeat([i \in 1..Len(results) |-> results[i].url])

\* a second entry for a URL that already has its record is still waiting
C5_Witness ==
  /\ Len(results) >= 2
  /\ \E i \in 1..Len(to_visit) : to_visit[i][1] = results[Len(results)].url

UrlsOf(q) == [i \in 1..Len(q) |-> q[i][1]]
RecordUrls(res) == {res[i].url : i \in 1..Len(res)}
IsPrefix(s, t) == Len(s) <= Len(t) /\ SubSeq(t, 1, Len(s)) = s

\* the entries an iteration appended (a step from the loop to the loop is
\* one iteration): the iteration removed one entry, so they sit at
\* positions Len(to_visit)..Len(to_visit') of the new frontier
AppendedAt == Len(to_visit)..Len(to_visit')

\* C6 (as stated): a link to an already-visited or already-queued URL is
\* never re-queued -- the frontier never holds two entries with one URL, and
\* no iteration appends an entry whose URL is visited or is the URL of the
\* page being processed.
C6_NeverRequeued ==
  [][ /\ NoRepeat(UrlsOf(to_visit'))
      /\ (pc = "loop" /\ pc' = "loop") =>
            \A i \in AppendedAt :
               /\ to_visit'[i][1] \notin visited
               /\ to_visit'[i][1] # Head(to_visit)[1] ]_vars

\* C6 (amended): no iteration appends an entry whose URL is in the visited
\* set as it stands while the page's links are processed.
C6_VisitedNeverRequeued ==
  [][ (pc = "loop" /\ pc' = "loop") =>
         \A i \in AppendedAt : to_visit'[i][1] \notin visited ]_vars

\* a page that may be followed carries an internal link to another page
\* that is already visited, and the frontier holds no entry for that URL
C6_Witness ==
  /\ Len(results) >= 2
  /\ MayFollow(depths[Len(depths)])
  /\ \E k \in 1..Len(results[Len(results)].links) :
       LET l == results[Len(results)].links[k]
       IN  /\ l.is_internal
           /\ l.url \in visited
           /\ l.url # results[Len(results)].url
           /\ \A i \in 1..Len(to_visit) : to_visit[i][1] # l.url

\* C7: a fetch attempt that yields no record leaves results as it is and
\* the loop at its next entry; the loop is left only by the return after
\* it; records are never removed; the returned data is results.
C7_FailureIsolation ==
  [][ /\ (fetched' # fetched /\ Len(results') = Len(results)) =>
            (results' = results /\ pc' = "loop" /\ to_visit' = Tail(to_visit))
      /\ warnings' # warnings => (fetched' # fetched /\ results' = results)
      /\ pc = "loop" => pc' \in {"loop", "done"}
      /\ IsPrefix(results, results')
      /\ (pc' = "done" /\ results # <<>>) => result'.data = results ]_vars

\* a fetch failed between two extractions and both records are returned
C7_Witness ==
  /\ pc = "done"
  /\ warnings >= 1
  /\ Len(result.data) >= 2
  /\ Len(fetched) = Len(result.data) + warnings
  /\ fetched[1] = result.data[1].url
  /\ fetched[Len(fetched)] = result.data[Len(result.data)].url
  /\ \E j \in 2..(Len(fetched) - 1) : fetched[j] \notin RecordUrls(result.data)

\* C8: the call returns, and when it returns after the loop the frontier
\* is empty or results holds max_pages records.
C8_Terminates ==
  /\ <>(pc \in {"done", "aborted"})
  /\ [](pc = "done" => (to_visit = <<>> \/ Len(results) = max_pages))

\* the crawl of a site with a page that links to itself, with a failed
\* fetch on the way, ended on an empty frontier
C8_Witness ==
  /\ pc = "done"
  /\ to_visit = <<>>
  /\ Len(results) < max_pages
  /\ warnings >= 1
  /\ \E i \in 1..Len(results) : \E k \in 1..Len(results[i].links) :
       results[i].links[k].url = results[i].url

\* C9: after the loop, empty results give the failure dict with the fixed
\* message and data = []; otherwise success, data = results in append order
\* and total_pages = len(data). success is true iff a page was extracted.
C9_Envelope ==
  /\ pc = "done" =>
       IF results = <<>>
       THEN /\ result.success = FALSE
            /\ result.data = <<>>
            /\ DOMAIN result = {"success", "error", "data"}
            /\ result.error = "No pages could be crawled"
       ELSE /\ result.success = TRUE
            /\ result.data = results
            /\ DOMAIN result = {"success", "data", "total_pages"}
            /\ result.total_pages = Len(result.data)
  /\ pc \in {"done", "aborted"} => (result.success <=> Len(results) >= 1)

\* the seed was fetched, the fetch failed, and the call returned the failure dict
C9_Witness ==
  /\ pc = "done"
  /\ fetched = <<url>>
  /\ result.success = FALSE

\* C10: with max_depth = 0 nothing is ever enqueued by the loop, at most
\* one fetch is attempted, and results (and the returned data) is empty or
\* holds exactly the seed's record.
C10_DepthZero ==
  max_depth = 0 =>
    /\ enqueued = 0
    /\ Len(to_visit) <= 1
    /\ Len(fetched) <= 1
    /\ results = <<>> \/ (Len(results) = 1 /\ results[1].url = url)
    /\ pc = "done" => result.data = results

\* the seed was extracted at max_depth = 0 with an internal link on it and
\* pages to spare, and the call returned its record alone
C10_Witness ==
  /\ max_depth = 0
  /\ max_pages >= 2
  /\ pc = "done"
  /\ Len(result.data) = 1
  /\ \E k \in 1..Len(result.data[1].links) : result.data[1].links[k].is_internal

\* C11: every link of a record is the anchor's href resolved against the
\* URL of the page the anchor is on.
C11_ResolvedAgainstPage ==
  \A i \in 1..Len(results) : \A k \in 1..Len(results[i].links) :
     results[i].links[k].url = urljoin(results[i].url, anchors[i][k])

\* the string parses with both a scheme and a host
ParsesWithSchemeAndHost(u) ==
  /\ ~urlparseRaises(u)
  /\ urlparse(u).scheme # <<>>
  /\ urlparse(u).netloc # <<>>

\* C12: from either button, scrape_website is entered only with a seed
\* that parses with a scheme and a host; for any other seed there is no
\* fetch, no frontier and no returned dict.
C12_InvalidSeedRejected ==
  /\ pc \notin {"ui", "rejected"} => ParsesWithSchemeAndHost(url)
  /\ ~ParsesWithSchemeAndHost(url) =>
        /\ fetched = <<>>
        /\ to_visit = <<>>
        /\ result = Pending

\* a button was pressed on a seed with a scheme and no host, and nothing ran
C12_Witness ==
  /\ pc = "rejected"
  /\ urlparse(url).scheme # <<>>
  /\ ~ParsesWithSchemeAndHost(url)
  /\ fetched = <<>>

\* C13: every text/html response yields exactly one record, whatever its
\* anchors; a crawl whose only fetch is a text/html response for the seed
\* returns success with the seed's record alone.
C13_HtmlPageIsRecorded ==
  /\ Cardinality({i \in 1..Len(responses) : responses[i] = "html"}) = Len(results)
  /\ (pc = "done" /\ responses = <<"html">>) =>
        /\ result.success = TRUE
        /\ Len(result.data) = 1
        /\ result.data[1].url = url

\* C14: every URL passed to requests.get is in visited once its iteration
\* is over, whatever the outcome.
C14_AttemptedIsVisited ==
  \A i \in 1..Len(fetched) : fetched[i] \in visited

\* C15: every requests.get but the first of a crawl comes after a
\* time.sleep that followed the one before it.
C15_DelayBetweenFetches ==
  [][ (Len(fetched') > Len(fetched) /\ fetched # <<>>) => slept ]_vars

\* position of a URL in a sequence of distinct URLs
PosIn(ord, u) == CHOOSE i \in 1..Len(ord) : ord[i] = u

\* the records of res appear in the order their URLs were first enqueued
InFirstSeenOrder(res, ord) ==
  \A i, j \in 1..Len(res) :
     i < j => PosIn(ord, res[i].url) < PosIn(ord, res[j].url)

\* C16: the frontier is FIFO (an iteration removes the front entry and only
\* appends at the back), and of two records the one whose URL was first
\* enqueued earlier comes first in results.
C16_FirstDiscoveredOrder ==
  [][ /\ (pc = "loop" /\ pc' = "loop") => IsPrefix(Tail(to_visit), to_visit')
      /\ InFirstSeenOrder(results', order') ]_vars

\* C17: every record but the first has its URL as an is_internal link of
\* an earlier record dequeued one level above; the first record is the
\* seed's at depth 0; every frontier entry below the seed comes from an
\* is_internal link of a record one level above.
HasParent(u, dep, upto) ==
  \E i \in 1..upto :
     /\ depths[i] = dep - 1
     /\ \E k \in 1..Len(results[i].links) :
          results[i].links[k].url = u /\ results[i].links[k].is_internal

C17_ReachableThroughInternalLinks ==
  /\ Len(results) >= 1 => (results[1].url = url /\ depths[1] = 0)
  /\ \A j \in 2..Len(results) :
        depths[j] <= max_depth /\ HasParent(results[j].url, depths[j], j - 1)
  /\ \A i \in 1..Len(to_visit) :
        to_visit[i][2] > 0 => HasParent(to_visit[i][1], to_visit[i][2], Len(results))

\* a page two hops from the seed has its record, and a record of the crawl
\* carries a link that is not internal
C17_Witness ==
  /\ Len(results) >= 3
  /\ depths[Len(depths)] = 2
  /\ \E i \in 1..Len(results) : \E k \in 1..Len(results[i].links) :
       ~results[i].links[k].is_internal

\* the step is an iteration whose requests.get gave a response of kind k
Got(k) == Len(responses') > Len(responses) /\ responses'[Len(responses')] = k

\* C18: a response that is not text/html is not passed to the extractor,
\* adds no record, enqueues nothing, raises no warning, and the loop goes on
\* with the next entry.
C18_NonHtmlSilentlySkipped ==
  [][ Got("nonhtml") =>
        /\ parsed' = parsed
        /\ results' = results
        /\ enqueued' = enqueued
        /\ to_visit' = Tail(to_visit)
        /\ warnings' = warnings
        /\ pc' = "loop" ]_vars

\* after a response that was not text/html, a later page was extracted
C18_Witness ==
  \E i, j \in 1..Len(responses) :
     i < j /\ responses[i] = "nonhtml" /\ responses[j] = "html" /\ Len(results) >= 2

\* C19: whenever the loop condition is evaluated, visited is the set of
\* the URLs of the records of results and has len(results) elements; a URL
\* enters visited only in the iteration that appends its record, and an
\* attempt that appends no record leaves visited and results as they are.
C19_VisitedIsRecordUrls ==
  [][ /\ pc' = "loop" =>
           (visited' = RecordUrls(results') /\ Cardinality(visited') = Len(results'))
      /\ visited' # visited =>
           /\ Len(results') = Len(results) + 1
           /\ visited' = visited \cup {results'[Len(results')].url}
      /\ (Got("raised") \/ Got("nonhtml")) =>
           (visited' = visited /\ results' = results) ]_vars

\* two records are in, after a fetch that raised and a response that was
\* not text/html, and the loop is still running
C19_Witness ==
  /\ pc = "loop"
  /\ Len(results) >= 2
  /\ \E i \in 1..Len(responses) : responses[i] = "raised"
  /\ \E i \in 1..Len(responses) : responses[i] = "nonhtml"
  /\ Cardinality(visited) = 2

\* C20: the depths of the frontier entries are >= 0, non-decreasing from
\* front to back, and are d or d+1 for d the depth of the entry dequeued
\* last (all 0 before the first dequeue).
C20_FrontierDepths ==
  /\ \A i \in 1..Len(to_visit) : to_visit[i][2] >= 0
  /\ \A i, j \in 1..Len(to_visit) : i < j => to_visit[i][2] <= to_visit[j][2]
  /\ \A i \in 1..Len(to_visit) :
        IF lastDepth = -1 THEN to_visit[i][2] = 0
        ELSE to_visit[i][2] \in {lastDepth, lastDepth + 1}

\* the frontier holds entries of both depths, one level below the seed's links
C20_Witness ==
  /\ lastDepth >= 1
  /\ Len(to_visit) >= 2
  /\ to_visit[1][2] = lastDepth
  /\ to_visit[Len(to_visit)][2] = lastDepth + 1

====
